---- MODULE Spec2Model ----
(***************************************************************************)
(* The version-bump script of the repository, in its two variants:         *)
(*   "node"  src/update-project-version.ts  (fs.readFileSync / writeFile)  *)
(*   "bun"   src/unnamed/part_000           (Bun.file / Bun.write)         *)
(* Strings are sequences of one-character strings, so that trim, split,    *)
(* Number and the template literal are computed character by character.    *)
(***************************************************************************)
EXTENDS Integers, Sequences, FiniteSets

VARIABLES
  variant,        \* which of the two scripts runs: "node" or "bun"
  file,           \* ./package.json on disk
  pc,             \* position of the process in startScript / updateVersion
  rl,             \* the readline interface: "none", "open", "closed"
  answer,         \* the line the user submitted
  type,           \* the argument of updateVersion
  packageJson,    \* the parsed manifest held by updateVersion
  currentVersion, \* packageJson.version as read
  major, minor, patch,
  error,          \* the exception in flight or caught
  stdout, stderr, \* what the process printed
  exitCode,       \* the status given to process.exit
  calls,          \* number of updateVersion invocations of this process
  writes,         \* number of completed manifest writes of this process
  before,         \* ./package.json as it was when the process started
  run,            \* number of the current process (1 for the first)
  history         \* one record per finished process, oldest first

vars == <<variant, file, pc, rl, answer, type, packageJson, currentVersion,
          major, minor, patch, error, stdout, stderr, exitCode, calls,
          writes, before, run, history>>

----------------------------------------------------------------------------
(* Bounds of the model *)

MaxParts == 4   \* most dot-separated parts of an initial version string
MaxPad == 1     \* most whitespace characters on either side of an answer
MaxRuns == 3    \* most processes run one after the other on one manifest

----------------------------------------------------------------------------
(* Strings *)

Digits == <<"0", "1", "2", "3", "4", "5", "6", "7", "8", "9">>

IsDigit(c) == \E i \in 1..10 : Digits[i] = c

DigitVal(c) == (CHOOSE i \in 1..10 : Digits[i] = c) - 1

Whitespace == {" ", "\t", "\n"}

RECURSIVE trimStart(_)
trimStart(s) ==
  IF s # <<>> /\ Head(s) \in Whitespace THEN trimStart(Tail(s)) ELSE s

RECURSIVE trimEnd(_)
trimEnd(s) ==
  IF s # <<>> /\ s[Len(s)] \in Whitespace
    THEN trimEnd(SubSeq(s, 1, Len(s) - 1))
    ELSE s

\* String.prototype.trim
trim(s) == trimEnd(trimStart(s))

\* String.prototype.split with a one-character separator: the pieces
\* between the separators, empty pieces kept
RECURSIVE split(_, _)
split(s, sep) ==
  IF \A i \in 1..Len(s) : s[i] # sep
    THEN <<s>>
    ELSE LET k == CHOOSE i \in 1..Len(s) :
                    s[i] = sep /\ \A j \in 1..(i - 1) : s[j] # sep
         IN <<SubSeq(s, 1, k - 1)>> \o split(SubSeq(s, k + 1, Len(s)), sep)

----------------------------------------------------------------------------
(* Numbers: a JavaScript value that a version component can hold *)

Num(n) == [t |-> "number", n |-> n]
NaN == [t |-> "NaN", n |-> 0]
undefined == [t |-> "undefined", n |-> 0]

RECURSIVE DecimalValue(_)
DecimalValue(s) ==
  IF s = <<>> THEN 0
  ELSE 10 * DecimalValue(SubSeq(s, 1, Len(s) - 1)) + DigitVal(s[Len(s)])

\* Number(s) for a string s made of decimal digits and of letters that form
\* no numeric literal: the empty string is 0, a run of digits is its decimal
\* value (leading zeros ignored), anything else is NaN
Number(s) ==
  IF \A i \in 1..Len(s) : IsDigit(s[i]) THEN Num(DecimalValue(s)) ELSE NaN

RECURSIVE DecimalString(_)
DecimalString(n) ==
  IF n < 10 THEN <<Digits[n + 1]>>
  ELSE DecimalString(n \div 10) \o <<Digits[(n % 10) + 1]>>

\* the string a template literal substitutes for a value
stringOf(v) ==
  CASE v.t = "number" -> DecimalString(v.n)
    [] v.t = "NaN" -> <<"N", "a", "N">>
    [] v.t = "undefined" -> <<"u", "n", "d", "e", "f", "i", "n", "e", "d">>

\* the value of x after x++
Increment(v) == IF v.t = "number" THEN Num(v.n + 1) ELSE NaN

\* currentVersion.split(".").map(Number)
parseVersion(s) ==
  LET parts == split(s, ".")
  IN [i \in 1..Len(parts) |-> Number(parts[i])]

\* Element with a default of 0 for a missing element
ElementOrZero(arr, i) == IF i <= Len(arr) THEN arr[i] ELSE Num(0)

\* array destructuring: the i-th element, undefined past the end
Element(arr, i) == IF i <= Len(arr) THEN arr[i] ELSE undefined

\* `${major}.${minor}.${patch}`
versionString(ma, mi, pa) ==
  stringOf(ma) \o <<".">> \o stringOf(mi) \o <<".">> \o stringOf(pa)

----------------------------------------------------------------------------
(* The manifest: JSON values and the file that holds them *)

JString(s) == [t |-> "string", s |-> s]
JNumber == [t |-> "number", s |-> <<>>]        \* a JSON number, as in "version": 1
JUndefined == [t |-> "undefined", s |-> <<>>]  \* what reading a missing property gives
JObject(f) == [t |-> "object", f |-> f]        \* f: the object's own properties
JNull == [t |-> "null"]
Unparsable == [t |-> "invalid"]                \* file contents that are not JSON
None == [t |-> "none"]                         \* a variable not yet assigned

NoFile == [kind |-> "absent"]
TextFile(fmt, data) == [kind |-> "file", fmt |-> fmt, data |-> data]

\* obj.key
Get(obj, key) ==
  IF obj.t = "object" /\ key \in DOMAIN obj.f THEN obj.f[key] ELSE JUndefined

\* Set building a new object that holds the assigned property alone
SetAlone(obj, key, value) == JObject([k \in {key} |-> value])

\* obj.key = value
Set(obj, key, value) ==
  JObject([k \in (DOMAIN obj.f) \cup {key} |->
             IF k = key THEN value ELSE obj.f[k]])

\* JSON.stringify(value, null, 2): the text of the value, indented by two spaces
stringify(value) == TextFile("indent2", value)

\* Bun's file.exists(): a promise of the answer, not the answer
exists(f) == [t |-> "promise", resolved |-> (f.kind = "file")]

\* JavaScript truthiness: every object (a promise included) is truthy
Truthy(v) ==
  CASE v.t = "promise" -> TRUE
    [] v.t = "boolean" -> v.value

\* the existence check of the Bun variant: if (!file.exists()) throw
existsCheckThrows(f) == ~Truthy(exists(f))

----------------------------------------------------------------------------
(* The switch on the version type *)

PATCH == <<"p", "a", "t", "c", "h">>
MINOR == <<"m", "i", "n", "o", "r">>
MAJOR == <<"m", "a", "j", "o", "r">>
P == <<"p">>
MIN == <<"m", "i", "n">>
MAX == <<"m", "a", "x">>

UpperCase == <<"A", "B", "C", "D", "E", "F", "G", "H", "I", "J", "K", "L", "M",
               "N", "O", "P", "Q", "R", "S", "T", "U", "V", "W", "X", "Y", "Z">>
LowerCase == <<"a", "b", "c", "d", "e", "f", "g", "h", "i", "j", "k", "l", "m",
               "n", "o", "p", "q", "r", "s", "t", "u", "v", "w", "x", "y", "z">>

toLowerCase(s) ==
  [i \in 1..Len(s) |->
     IF \E k \in 1..26 : UpperCase[k] = s[i]
       THEN LowerCase[CHOOSE k \in 1..26 : UpperCase[k] = s[i]]
       ELSE s[i]]

\* nodeCase matching the labels whatever the case of the letters
nodeCaseAnyCase(t) ==
  CASE toLowerCase(t) = <<"p", "a", "t", "c", "h">> -> "patch"
    [] toLowerCase(t) = <<"m", "i", "n", "o", "r">> -> "minor"
    [] toLowerCase(t) = <<"m", "a", "j", "o", "r">> -> "major"
    [] OTHER -> "default"

\* the case labels of the node variant
nodeCase(t) ==
  CASE t = PATCH -> "patch"
    [] t = MINOR -> "minor"
    [] t = MAJOR -> "major"
    [] OTHER -> "default"

\* the case labels of the bun variant
bunCase(t) ==
  CASE t \in {P, PATCH} -> "patch"
    [] t \in {MIN, MINOR} -> "minor"
    [] t \in {MAX, MAJOR} -> "major"
    [] OTHER -> "default"

switchCase(v, t) == IF v = "node" THEN nodeCase(t) ELSE bunCase(t)

\* caseBody whose minor and major cases leave the lower components alone
caseBodyNoReset(label, ma, mi, pa) ==
  CASE label = "patch" -> <<ma, mi, Increment(pa)>>
    [] label = "minor" -> <<ma, Increment(mi), pa>>
    [] label = "major" -> <<Increment(ma), mi, pa>>
    [] OTHER -> <<ma, mi, pa>>

\* caseBody whose patch case computes patch + 1 and drops it
caseBodyPatchLost(label, ma, mi, pa) ==
  CASE label = "patch" -> <<ma, mi, pa>>
    [] label = "minor" -> <<ma, Increment(mi), Num(0)>>
    [] label = "major" -> <<Increment(ma), Num(0), Num(0)>>
    [] OTHER -> <<ma, mi, pa>>

\* the body of the matched case: the new <<major, minor, patch>>
caseBody(label, ma, mi, pa) ==
  CASE label = "patch" -> <<ma, mi, Increment(pa)>>
    [] label = "minor" -> <<ma, Increment(mi), Num(0)>>
    [] label = "major" -> <<Increment(ma), Num(0), Num(0)>>
    [] OTHER -> <<ma, mi, pa>>

\* a default case that breaks instead of throwing
defaultBreaks(label) == FALSE

\* the default case throws
defaultThrows(label) == label = "default"

\* an exit status of 0 after a success and 1 after a failure
exitStatusByOutcome(err) == IF err = "none" THEN 0 ELSE 1

\* the status the finally block gives to process.exit
exitStatus(err) == 1

\* the finally block of the node variant calls rl.close(); the bun variant's does not
finallyCloses(v) == v = "node"

\* a success line that reports the version read as the new version too
successMessageStale(cur, pj) == [stream |-> "log", old |-> cur.s, new |-> cur.s]

\* the success line: the version read and packageJson.version after the assignment
successMessage(cur, pj) ==
  [stream |-> "log", old |-> cur.s, new |-> Get(pj, "version").s]

Prompt == [stream |-> "prompt", old |-> <<>>, new |-> <<>>]

----------------------------------------------------------------------------
(* Inputs: the manifests a run can find and the lines a user can type *)

Variants == {"node", "bun"}

Formats == {"compact", "indent2"}

\* the parts a version string of an initial manifest is made of
Parts == {<<>>, <<"0">>, <<"9">>, <<"0", "9">>, <<"a">>}

RECURSIVE join(_, _)
join(parts, sep) ==
  IF Len(parts) = 1 THEN parts[1]
  ELSE parts[1] \o <<sep>> \o join(Tail(parts), sep)

VersionStrings(n) ==
  {join(ps, ".") : ps \in UNION {[1..k -> Parts] : k \in 1..n}}

\* the manifest's version field: a string, a number, or no field at all
VersionFields(n) ==
  {JString(s) : s \in VersionStrings(n)} \cup {JNumber, JUndefined}

NameFields == {JString(<<"x">>), JUndefined}

\* a manifest object with these version and name fields (JUndefined: no field)
Manifest(version, name) ==
  LET keys == (IF version = JUndefined THEN {} ELSE {"version"})
                \cup (IF name = JUndefined THEN {} ELSE {"name"})
  IN JObject([k \in keys |-> IF k = "version" THEN version ELSE name])

Files(versions, names) ==
  {NoFile}
    \cup {TextFile(f, d) : f \in Formats, d \in {Unparsable, JNull}}
    \cup {TextFile(f, Manifest(v, n)) : f \in Formats, v \in versions, n \in names}

BANANA == <<"b", "a", "n", "a", "n", "a">>

\* the version types of the runs that vary the manifest
Kinds == {PATCH, MINOR, MAJOR, BANANA}

Words ==
  {PATCH, MINOR, MAJOR, P, MIN, MAX, BANANA, <<>>,
   <<"P", "a", "t", "c", "h">>, <<"M", "A", "J", "O", "R">>,
   <<"p", "a", "t", "c">>, <<"m", "i", " ", "n">>}

Pads == UNION {[1..k -> Whitespace] : k \in 0..MaxPad}

\* the lines of the runs that vary the answer
Answers == {l \o w \o r : l \in Pads, w \in Words, r \in Pads}

V009 == <<"0", ".", "0", ".", "9">>

----------------------------------------------------------------------------
(* The process *)

\* the state of a process that has just been started on the manifest f
Fresh(f) ==
  /\ pc = "start"
  /\ rl = "none"
  /\ answer = None
  /\ type = None
  /\ packageJson = None
  /\ currentVersion = None
  /\ major = undefined
  /\ minor = undefined
  /\ patch = undefined
  /\ error = "none"
  /\ stdout = <<>>
  /\ stderr = <<>>
  /\ exitCode = -1
  /\ calls = 0
  /\ writes = 0
  /\ before = f

InitWith(files) ==
  /\ variant \in Variants
  /\ file \in files
  /\ Fresh(file)
  /\ run = 1
  /\ history = <<>>

Init == InitWith(Files(VersionFields(MaxParts), NameFields))

\* startScript: create the interface and ask the question
StartScript ==
  /\ pc = "start"
  /\ rl' = "open"
  /\ stdout' = Append(stdout, Prompt)
  /\ pc' = "question"
  /\ UNCHANGED <<variant, file, answer, type, packageJson, currentVersion,
                 major, minor, patch, error, stderr, exitCode, calls, writes,
                 before, run, history>>

\* the question's callback is invoked with the line: updateVersion(answer.trim())
Answer(line) ==
  /\ pc = "question"
  /\ answer' = line
  /\ type' = trim(line)
  /\ calls' = calls + 1
  /\ pc' = "read"
  /\ UNCHANGED <<variant, file, rl, packageJson, currentVersion, major, minor,
                 patch, error, stdout, stderr, exitCode, writes, before, run,
                 history>>

\* the exception reading and parsing the manifest raises, None when it succeeds
readError(v, f) ==
  IF v = "bun" /\ existsCheckThrows(f) THEN "package.json file not found"
  ELSE IF f.kind = "absent" THEN "ENOENT"
  ELSE IF f.data = Unparsable THEN "SyntaxError"
  ELSE "none"

\* read ./package.json and parse it
ReadPackageJson ==
  /\ pc = "read"
  /\ LET e == readError(variant, file)
     IN IF e # "none"
          THEN /\ error' = e
               /\ pc' = "catch"
               /\ UNCHANGED packageJson
          ELSE /\ packageJson' = file.data
               /\ pc' = "version"
               /\ UNCHANGED error
  /\ UNCHANGED <<variant, file, rl, answer, type, currentVersion, major, minor,
                 patch, stdout, stderr, exitCode, calls, writes, before, run,
                 history>>

\* packageJson.version on null, or .split on a value that is no string, throws
versionThrows(pj) == pj = JNull \/ Get(pj, "version").t # "string"

\* currentVersion = packageJson.version;
\* [major, minor, patch] = currentVersion.split(".").map(Number)
GetCurrentVersion ==
  /\ pc = "version"
  /\ IF versionThrows(packageJson)
       THEN /\ error' = "TypeError"
            /\ pc' = "catch"
            /\ currentVersion' =
                 IF packageJson = JNull THEN None ELSE Get(packageJson, "version")
            /\ UNCHANGED <<major, minor, patch>>
       ELSE LET arr == parseVersion(Get(packageJson, "version").s)
            IN /\ currentVersion' = Get(packageJson, "version")
               /\ major' = Element(arr, 1)
               /\ minor' = Element(arr, 2)
               /\ patch' = Element(arr, 3)
               /\ pc' = "switch"
               /\ UNCHANGED error
  /\ UNCHANGED <<variant, file, rl, answer, type, packageJson, stdout, stderr,
                 exitCode, calls, writes, before, run, history>>

\* switch (type)
SwitchType ==
  /\ pc = "switch"
  /\ LET label == switchCase(variant, type)
     IN IF defaultThrows(label)
          THEN /\ error' = "Invalid version type"
               /\ pc' = "catch"
               /\ UNCHANGED <<major, minor, patch>>
          ELSE LET new == caseBody(label, major, minor, patch)
               IN /\ major' = new[1]
                  /\ minor' = new[2]
                  /\ patch' = new[3]
                  /\ pc' = "write"
                  /\ UNCHANGED error
  /\ UNCHANGED <<variant, file, rl, answer, type, packageJson, currentVersion,
                 stdout, stderr, exitCode, calls, writes, before, run, history>>

\* packageJson.version = `${major}.${minor}.${patch}`, then the write of
\* JSON.stringify(packageJson, null, 2); writable: whether the file system
\* accepts the write (it throws, leaving the file as it was, when not)
WriteFile(writable) ==
  /\ pc = "write"
  /\ packageJson' =
       Set(packageJson, "version", JString(versionString(major, minor, patch)))
  /\ IF writable
       THEN /\ file' = stringify(packageJson')
            /\ writes' = writes + 1
            /\ pc' = "log"
            /\ UNCHANGED error
       ELSE /\ error' = "EACCES"
            /\ pc' = "catch"
            /\ UNCHANGED <<file, writes>>
  /\ UNCHANGED <<variant, rl, answer, type, currentVersion, major, minor,
                 patch, stdout, stderr, exitCode, calls, before, run, history>>

\* console.log of the success line; updateVersion returns
LogSuccess ==
  /\ pc = "log"
  /\ stdout' = Append(stdout, successMessage(currentVersion, packageJson))
  /\ pc' = "finally"
  /\ UNCHANGED <<variant, file, rl, answer, type, packageJson, currentVersion,
                 major, minor, patch, error, stderr, exitCode, calls, writes,
                 before, run, history>>

\* catch (error) { console.error(error.message) }
Catch ==
  /\ pc = "catch"
  /\ stderr' = Append(stderr, error)
  /\ pc' = "finally"
  /\ UNCHANGED <<variant, file, rl, answer, type, packageJson, currentVersion,
                 major, minor, patch, error, stdout, exitCode, calls, writes,
                 before, run, history>>

\* finally: rl.close() where the variant has it
Finally ==
  /\ pc = "finally"
  /\ rl' = IF finallyCloses(variant) THEN "closed" ELSE rl
  /\ pc' = "exit"
  /\ UNCHANGED <<variant, file, answer, type, packageJson, currentVersion,
                 major, minor, patch, error, stdout, stderr, exitCode, calls,
                 writes, before, run, history>>

\* what the terminal and the disk show of a finished process
Outcome ==
  [type |-> type, read |-> currentVersion, error |-> error,
   out |-> stdout, file |-> file]

\* finally: process.exit(1)
ProcessExit ==
  /\ pc = "exit"
  /\ exitCode' = exitStatus(error)
  /\ history' = Append(history, Outcome)
  /\ pc' = "exited"
  /\ UNCHANGED <<variant, file, rl, answer, type, packageJson, currentVersion,
                 major, minor, patch, error, stdout, stderr, calls, writes,
                 before, run>>

\* the script is started again on the manifest the last process left
NextRun ==
  /\ pc = "exited"
  /\ run < MaxRuns
  /\ run' = run + 1
  /\ pc' = "start"
  /\ rl' = "none"
  /\ answer' = None
  /\ type' = None
  /\ packageJson' = None
  /\ currentVersion' = None
  /\ major' = undefined
  /\ minor' = undefined
  /\ patch' = undefined
  /\ error' = "none"
  /\ stdout' = <<>>
  /\ stderr' = <<>>
  /\ exitCode' = -1
  /\ calls' = 0
  /\ writes' = 0
  /\ before' = file
  /\ UNCHANGED <<variant, file, history>>

Step ==
  \/ StartScript
  \/ ReadPackageJson
  \/ GetCurrentVersion
  \/ SwitchType
  \/ \E writable \in BOOLEAN : WriteFile(writable)
  \/ LogSuccess
  \/ Catch
  \/ Finally
  \/ ProcessExit

\* one run, every manifest, the version types
Next == (\E line \in Kinds : Answer(line)) \/ Step

Spec == Init /\ [][Next]_vars

\* one run, a few manifests, every answer
InitAnswers ==
  InitWith(Files({JString(V009), JString(<<"a">>), JNumber, JUndefined},
                 {JString(<<"x">>)}))

NextAnswers == (\E line \in Answers : Answer(line)) \/ Step

SpecAnswers == InitAnswers /\ [][NextAnswers]_vars

\* up to MaxRuns runs on one manifest
RunVersions == {join(ps, ".") : ps \in [1..3 -> {<<"0">>, <<"9">>}]}

InitRuns ==
  InitWith({TextFile("compact", Manifest(JString(s), JString(<<"x">>))) :
              s \in RunVersions \cup {<<"a">>}})

NextRuns == (\E line \in {PATCH, MINOR, BANANA} : Answer(line)) \/ Step \/ NextRun

SpecRuns == InitRuns /\ [][NextRuns]_vars

----------------------------------------------------------------------------
(* Vocabulary of the properties *)

Exited == pc = "exited"

Succeeded == Exited /\ error = "none"

\* the version field of the manifest in file f (JUndefined when it has none)
VersionOf(f) == IF f.kind = "file" THEN Get(f.data, "version") ELSE JUndefined

\* f holds a JSON object
HoldsObject(f) == f.kind = "file" /\ f.data.t = "object"

\* f holds a JSON object whose version field is a string
Usable(f) == HoldsObject(f) /\ VersionOf(f).t = "string"

AllDigits(s) == s # <<>> /\ \A i \in 1..Len(s) : IsDigit(s[i])

\* s is three dot-separated non-negative integers
IsSemver(s) ==
  LET ps == split(s, ".") IN Len(ps) = 3 /\ \A i \in 1..3 : AllDigits(ps[i])

\* "M.N.P"
Dotted(m, n, p) ==
  DecimalString(m) \o <<".">> \o DecimalString(n) \o <<".">> \o DecimalString(p)

\* the success lines among the printed lines
Logs(out) == SelectSeq(out, LAMBDA m : m.stream = "log")

Prompts(out) == SelectSeq(out, LAMBDA m : m.stream = "prompt")

InvalidType == "Invalid version type"

----------------------------------------------------------------------------
(* C1: a successful run on a manifest version (M, N, P) of non-negative
   integers writes (M, N, P+1) for "patch", (M, N+1, 0) for "minor" and
   (M+1, 0, 0) for "major". *)
C1_IncrementRule ==
  (Succeeded /\ Usable(before) /\ IsSemver(VersionOf(before).s)) =>
    LET ps == split(VersionOf(before).s, ".")
        M == DecimalValue(ps[1])
        N == DecimalValue(ps[2])
        Q == DecimalValue(ps[3])
        new == VersionOf(file)
    IN /\ new.t = "string"
       /\ type = PATCH => new.s = Dotted(M, N, Q + 1)
       /\ type = MINOR => new.s = Dotted(M, N + 1, 0)
       /\ type = MAJOR => new.s = Dotted(M + 1, 0, 0)

\* a minor run took 0.9.9 to 0.10.0
C1_Witness ==
  /\ Succeeded
  /\ type = MINOR
  /\ VersionOf(before) = JString(<<"0", ".", "9", ".", "9">>)
  /\ VersionOf(file) = JString(<<"0", ".", "1", "0", ".", "0">>)

(* C3: after a successful run the manifest has the same set of fields as the
   one that was read, and every field other than version has its old value. *)
C3_OtherFieldsKept ==
  Succeeded =>
    /\ HoldsObject(before)
    /\ HoldsObject(file)
    /\ DOMAIN file.data.f = DOMAIN before.data.f
    /\ \A k \in (DOMAIN before.data.f) \ {"version"} :
         file.data.f[k] = before.data.f[k]

\* a run rewrote the version of a manifest that also has a name
C3_Witness ==
  /\ Succeeded
  /\ "name" \in DOMAIN before.data.f
  /\ VersionOf(file) # VersionOf(before)
  /\ file.data.f["name"] = JString(<<"x">>)

(* C7: a finished run has printed exactly one outcome message; the success
   line is printed only after the write, with the version read as {old} and
   the version written as {new}; when updateVersion fails no success line is
   printed and the failure's message is on the error stream. *)
C7_OneOutcomeMessage ==
  /\ Len(Logs(stdout)) + Len(stderr) <= 1
  /\ pc \in {"finally", "exit", "exited"} => Len(Logs(stdout)) + Len(stderr) = 1
  /\ Logs(stdout) # <<>> =>
       /\ writes = 1
       /\ error = "none"
       /\ stderr = <<>>
       /\ Logs(stdout)[1].old = VersionOf(before).s
       /\ Logs(stdout)[1].new = VersionOf(file).s
  /\ (pc \in {"finally", "exit", "exited"} /\ error # "none") =>
       /\ Logs(stdout) = <<>>
       /\ stderr = <<error>>

\* the success line "0.0.9 -> 0.0.10" is on standard output
C7_Witness ==
  /\ Exited
  /\ Logs(stdout) = <<[stream |-> "log", old |-> V009,
                       new |-> <<"0", ".", "0", ".", "1", "0">>]>>

(* C9: the process exits with status 1 whether the manifest was updated or
   updateVersion failed. *)
C9_ExitStatusAlwaysOne == Exited => exitCode = 1

\* the manifest was updated and the process has exited with status 1
C9_Witness == Succeeded /\ writes = 1 /\ file # before /\ exitCode = 1

(* C5: nothing but the manifest passes from one run to the next: each run
   reads the version the run before it left, and k successful "patch" runs
   in a row starting at (M, N, P) leave (M, N, P+k), every one of them a
   new, larger version. *)
C5_PatchRunsAccumulate ==
  /\ \A i \in 2..Len(history) :
       history[i].read = VersionOf(history[i - 1].file)
  /\ \A i \in 1..Len(history) : \A j \in i..Len(history) :
       ( /\ \A k \in i..j : history[k].type = PATCH /\ history[k].error = "none"
         /\ IsSemver(history[i].read.s) ) =>
           LET ps == split(history[i].read.s, ".")
           IN /\ VersionOf(history[j].file).s =
                   Dotted(DecimalValue(ps[1]), DecimalValue(ps[2]),
                          DecimalValue(ps[3]) + (j - i + 1))
              /\ Logs(history[j].out)[1].old =
                   Dotted(DecimalValue(ps[1]), DecimalValue(ps[2]),
                          DecimalValue(ps[3]) + (j - i))
  /\ Exited => history[Len(history)].file = file

\* three patch runs in a row took 0.0.9 to 0.0.10, 0.0.11 and 0.0.12
C5_Witness ==
  /\ Len(history) = 3
  /\ \A k \in 1..3 : history[k].type = PATCH /\ history[k].error = "none"
  /\ history[1].read = JString(V009)
  /\ VersionOf(history[1].file) = JString(<<"0", ".", "0", ".", "1", "0">>)
  /\ VersionOf(history[2].file) = JString(<<"0", ".", "0", ".", "1", "1">>)
  /\ VersionOf(file) = JString(<<"0", ".", "0", ".", "1", "2">>)

\* the version types each variant's switch accepts
Accepted(v) ==
  IF v = "node" THEN {PATCH, MINOR, MAJOR}
  ELSE {PATCH, MINOR, MAJOR, P, MIN, MAX}

(* C2 as stated: for every version type that is not accepted the run fails
   with the invalid-version-type error, the manifest is what it was before
   the run, and the message is reported. *)
C2_Original ==
  (Exited /\ type \notin Accepted(variant)) =>
    /\ error = InvalidType
    /\ stderr = <<InvalidType>>
    /\ file = before

(* C2 amended: for every version type that is not accepted the run fails
   before any write, the manifest is what it was before the run, and the
   failure's message is reported; the failure is the invalid-version-type
   error whenever the manifest holds an object with a string version, and
   the earlier read, parse or type error otherwise. *)
C2_RejectedTypeLeavesManifest ==
  (Exited /\ type \notin Accepted(variant)) =>
    /\ file = before
    /\ writes = 0
    /\ error # "none"
    /\ stderr = <<error>>
    /\ Logs(stdout) = <<>>
    /\ Usable(before) <=> error = InvalidType

\* "banana" was rejected on a compact manifest at 0.0.9, which is untouched
C2_Witness ==
  /\ Exited
  /\ type = BANANA
  /\ before = TextFile("compact", Manifest(JString(V009), JString(<<"x">>)))
  /\ file = before
  /\ stderr = <<InvalidType>>

(* C6 as stated: on a manifest with a string version, every trimmed answer
   other than "patch", "minor" and "major" fails with the
   invalid-version-type error and leaves the manifest unmodified. *)
C6_Original ==
  (Exited /\ Usable(before) /\ type \notin {PATCH, MINOR, MAJOR}) =>
    /\ error = InvalidType
    /\ file = before

(* C6 amended: the type is matched case-sensitively and exactly; the node
   variant accepts "patch", "minor" and "major" only, the bun variant also
   the abbreviations "p", "min" and "max"; on a manifest with a string
   version every other trimmed answer fails with the invalid-version-type
   error and leaves the manifest unmodified, and no accepted one does. *)
C6_ExactMatchWithBunAliases ==
  (Exited /\ Usable(before)) =>
    LET accepted == IF variant = "node"
                      THEN {PATCH, MINOR, MAJOR}
                      ELSE {PATCH, MINOR, MAJOR, P, MIN, MAX}
    IN /\ type \notin accepted => error = InvalidType /\ file = before
       /\ type \in accepted => error \in {"none", "EACCES"}
       /\ (type \in accepted /\ error = "none") => writes = 1

\* the bun variant took the answer " max" as a major bump of 0.0.9
C6_Witness ==
  /\ Succeeded
  /\ variant = "bun"
  /\ answer = <<" ">> \o MAX
  /\ VersionOf(before) = JString(V009)
  /\ VersionOf(file) = JString(<<"1", ".", "0", ".", "0">>)

(* C8 as stated: once the answer is in, the run closes the readline
   interface and then exits; updateVersion was called once, with the trimmed
   answer, the question was asked once, and at most one write happened. *)
C8_Claim ==
  /\ pc \in {"exit", "exited"} => rl = "closed"
  /\ Exited =>
       /\ calls = 1
       /\ type = trim(answer)
       /\ Len(Prompts(stdout)) = 1
       /\ writes <= 1

(* C4 as stated: when the manifest is absent the run reports a
   file-not-found error, in the bun variant the "package.json file not
   found" error of the existence check, and makes no write. *)
C4_Claim ==
  (Exited /\ before = NoFile) =>
    /\ error = IF variant = "bun" THEN "package.json file not found" ELSE "ENOENT"
    /\ stderr = <<error>>
    /\ writes = 0
    /\ file = NoFile

\* the version field of f is missing, no string, or not three integers
Malformed(f) ==
  HoldsObject(f) /\ (VersionOf(f).t # "string" \/ ~IsSemver(VersionOf(f).s))

(* C10 as stated: whenever the version field is absent, non-string or not
   three numeric parts and the type is valid, updateVersion raises no error,
   writes the version it computed and reports success. *)
C10_Original ==
  (Exited /\ Malformed(before) /\ type \in Accepted(variant) /\ error # "EACCES") =>
    /\ error = "none"
    /\ stderr = <<>>
    /\ writes = 1
    /\ Logs(stdout) # <<>>

\* what the three components do under each type
Role(label, i) ==
  CASE label = PATCH -> <<"keep", "keep", "increment">>[i]
    [] label = MINOR -> <<"keep", "increment", "reset">>[i]
    [] label = MAJOR -> <<"increment", "reset", "reset">>[i]

\* the i-th part of the version written from the version string s: a missing
\* part is undefined, a part that is no run of digits is NaN (the empty part
\* is 0), and both are NaN once incremented
WrittenPart(label, s, i) ==
  LET ps == split(s, ".")
      present == i <= Len(ps)
      numeric == present /\ \A k \in 1..Len(ps[i]) : IsDigit(ps[i][k])
  IN CASE Role(label, i) = "reset" -> <<"0">>
       [] Role(label, i) = "increment" ->
            IF numeric THEN DecimalString(DecimalValue(ps[i]) + 1)
            ELSE <<"N", "a", "N">>
       [] Role(label, i) = "keep" ->
            IF ~present THEN <<"u", "n", "d", "e", "f", "i", "n", "e", "d">>
            ELSE IF numeric THEN DecimalString(DecimalValue(ps[i]))
            ELSE <<"N", "a", "N">>

(* C10 amended: a version field that is a string gets no validation: with a
   valid type updateVersion raises no error of its own whatever the string
   holds, writes the version computed from NaN and undefined components
   (such as "NaN.0.0") and reports success, unless the write itself fails;
   a version field that is absent or no string makes the split throw a
   TypeError, which is reported, and nothing is written. *)
C10_StringVersionUnvalidated ==
  (Exited /\ HoldsObject(before) /\ type \in {PATCH, MINOR, MAJOR}) =>
    IF VersionOf(before).t = "string"
      THEN /\ error \in {"none", "EACCES"}
           /\ error = "none" =>
                /\ stderr = <<>>
                /\ writes = 1
                /\ Logs(stdout) # <<>>
                /\ VersionOf(file).s =
                     WrittenPart(type, VersionOf(before).s, 1) \o <<".">>
                       \o WrittenPart(type, VersionOf(before).s, 2) \o <<".">>
                       \o WrittenPart(type, VersionOf(before).s, 3)
      ELSE /\ error = "TypeError"
           /\ stderr = <<"TypeError">>
           /\ writes = 0
           /\ file = before

\* a patch run wrote "0.undefined.NaN" over the version "0"
C10_Witness ==
  /\ Succeeded
  /\ type = PATCH
  /\ VersionOf(before) = JString(<<"0">>)
  /\ VersionOf(file) =
       JString(<<"0", ".", "u", "n", "d", "e", "f", "i", "n", "e", "d", ".",
                 "N", "a", "N">>)

====
